---- MODULE Spec2Model ----
(***************************************************************************)
(* The binding protocol between a Context, an RPMDIntegrator and the       *)
(* platform's IntegrateRPMDStepKernel, and the integrator's per-copy       *)
(* operations (src/plugins/rpmd/openmmapi/src/RPMDIntegrator.cpp).         *)
(*                                                                         *)
(* The integrator's own code is translated line by line.  Platform,        *)
(* ContextImpl and the kernel bodies are collaborators whose code is not   *)
(* part of the sources; they are modelled from their documented contract.  *)
(***************************************************************************)
EXTENDS Integers, Sequences, FiniteSets, TLC

\* ------------------------------------------------------------------ bounds
NumInteg == 1        \* RPMDIntegrator objects the caller has constructed
MaxImpl == 3         \* ContextImpl objects ever constructed (Context ctor + reinitialize)
NumAddr == 2         \* storage locations a Context object can occupy
NumCopies == 2       \* the numCopies every integrator was constructed with
NumParticles == 1    \* System::getNumParticles(): the length a per-copy vector must have
MaxVecLen == 2       \* longest vector a caller passes to setPositions/setVelocities
MaxSteps == 2        \* largest n of step(n)
MaxSeed == 1         \* random seeds are 0..MaxSeed
MaxHist == 2         \* operations since the last bind that hist records

\* --------------------------------------------------------------- constants
NULL == 0            \* the null pointer (owner(NULL) in the constructor)
DefaultConstraintTolerance == 1  \* the 1e-4 of setConstraintTolerance(1e-4), in units of 1e-4

Integ == 1..NumInteg
ImplId == 1..MaxImpl
Addr == 1..NumAddr
Val == {0, 1}             \* the contents a vector can have
ValMod == Cardinality(Val) \* arithmetic on contents is modulo ValMod
Seeds == 0..MaxSeed
Scalars == {0, 1}         \* the values a scalar parameter can have (tolerances in units of 1e-4)
Copies == 0..(NumCopies - 1)
CopyArgs == (-1)..NumCopies
CopyCounts == (-1)..NumCopies  \* the numCopies a caller passes to the constructor
StepArgs == (-1)..MaxSteps
PlatKinds == {"ok", "unsupported", "wrongtype"}
DataTypes == {"Positions", "Velocities"}

\* A vector<Vec3> is its length and its content; the content is one number.
Vec(n) == [len : {n}, val : Val]
InVecs == UNION {Vec(n) : n \in 0..MaxVecLen}
ZeroVec == [len |-> NumParticles, val |-> 0]
NoVec == [len |-> 0, val |-> 0]

VARIABLES
    owner,      \* owner[i]: RPMDIntegrator::owner, the address of a Context or NULL
    context,    \* context[i]: RPMDIntegrator::context, a ContextImpl id or NULL
    kernel,     \* kernel[i]: RPMDIntegrator::kernel, the Kernel handle's object
    seed,       \* seed[i]: Integrator random number seed
    numCopies,  \* numCopies[i]: RPMDIntegrator::numCopies
    temperature,         \* temperature[i]: set by setTemperature
    friction,            \* friction[i]: set by setFriction
    stepSize,            \* stepSize[i]: set by setStepSize
    constraintTolerance, \* constraintTolerance[i]: set by setConstraintTolerance
    ctx,        \* ctx[c]: the Context object constructed c-th (identity c)
    ctxPos,     \* ctxPos[c]: canonical positions held by Context c
    ctxVel,     \* ctxVel[c]: canonical velocities held by Context c
    nextImpl,   \* id the next ContextImpl gets
    nKernels,   \* kernels created so far by Platform::createKernel
    pc,         \* position of the caller inside step(n), with the calls made so far
    last,       \* outcome of the last operation the caller made
    halted,     \* the process has crashed
    hist,       \* hist[i]: what was done to integrator i since its last bind
    state1      \* a State object the caller keeps from an earlier getState

vars == <<owner, context, kernel, seed, numCopies, temperature, friction,
          stepSize, constraintTolerance, ctx, ctxPos, ctxVel,
          nextImpl, nKernels, pc, last, halted, hist, state1>>

\* ---------------------------------------------------------------- objects
NoParameters == [temperature |-> 0, friction |-> 0, stepSize |-> 0,
                 constraintTolerance |-> 0]

NoKernel == [id |-> 0, name |-> "", type |-> "null", impl |-> NULL,
             inits |-> 0, rng |-> 0, par |-> NoParameters,
             pos |-> <<>>, vel |-> <<>>]

NoCtx == [status |-> "none", addr |-> NULL, impl |-> NULL, integ |-> 0, plat |-> "none"]

NoState == [types |-> {}, pos |-> NoVec, vel |-> NoVec]

Idle == [phase |-> "idle", integ |-> 0, n |-> 0, i |-> 0,
        includeForces |-> FALSE, includeEnergy |-> FALSE,
         update |-> 0, forces |-> 0, execute |-> 0]

NoHist == [on |-> FALSE, seed |-> 0, ops |-> <<>>, long |-> FALSE]

Outcome(op, i, err, ret) == [op |-> op, integ |-> i, err |-> err, ret |-> ret]

\* The live Context a ContextImpl id belongs to (0 when the impl is deleted).
LiveCtxOf(im) ==
    IF \E c \in ImplId : ctx[c].status = "live" /\ ctx[c].impl = im
    THEN CHOOSE c \in ImplId : ctx[c].status = "live" /\ ctx[c].impl = im
    ELSE 0

AddrInUse(a) == \E c \in ImplId : ctx[c].status = "live" /\ ctx[c].addr = a

\* ------------------------------------------------- platform and kernel
\* IntegrateRPMDStepKernel::Name(): the name under which platforms register
\* their RPMD step kernel.
IntegrateRPMDStepKernelName == "IntegrateRPMDStep"

\* Mutant of createKernel: the platform keeps one kernel per name and hands
\* the same instance to every caller.
createKernel_Cached(name, plat, im, kid) ==
    [id |-> 1, name |-> name,
     type |-> IF plat = "ok" /\ name = IntegrateRPMDStepKernelName
              THEN "rpmd" ELSE "other",
     impl |-> im, inits |-> 0, rng |-> 0, par |-> NoParameters,
     pos |-> <<>>, vel |-> <<>>]

\* Platform::createKernel(name, context): the object the platform hands back
\* for IntegrateRPMDStepKernel::Name().  A platform of kind "unsupported"
\* throws instead (the caller tests for that before calling this).
createKernel(name, plat, im, kid) ==
    [id |-> kid, name |-> name,
     type |-> IF plat = "ok" /\ name = IntegrateRPMDStepKernelName
              THEN "rpmd" ELSE "other",
     impl |-> im, inits |-> 0, rng |-> 0, par |-> NoParameters,
     pos |-> <<>>, vel |-> <<>>]

\* The scalar parameters a kernel reads from the integrator it is handed
\* (the  *this  of lines 58 and 84).
Parameters(i) ==
    [temperature |-> temperature[i], friction |-> friction[i],
     stepSize |-> stepSize[i], constraintTolerance |-> constraintTolerance[i]]

\* IntegrateRPMDStepKernel::initialize(system, integrator): allocates the
\* per-copy buffers, seeds the kernel's random stream from the integrator and
\* reads the integrator's scalar parameters.
KernelInitialize(k, i) ==
    [k EXCEPT !.inits = @ + 1,
              !.rng = seed[i] % ValMod,
              !.par = Parameters(i),
              !.pos = [cp \in 0..(numCopies[i] - 1) |-> ZeroVec],
              !.vel = [cp \in 0..(numCopies[i] - 1) |-> ZeroVec]]

\* The argument checks of the per-copy accessors (invariant I3).
KernelArgError(k, copy, len) ==
    IF copy \notin DOMAIN k.pos THEN "InvalidCopyIndex"
    ELSE IF len # NumParticles THEN "ParticleCountMismatch"
    ELSE "ok"

\* IntegrateRPMDStepKernel::setPositions(copy, positions)
KernelSetPositions(k, copy, v) ==
    LET e == KernelArgError(k, copy, v.len) IN
    [err |-> e, kernel |-> IF e = "ok" THEN [k EXCEPT !.pos[copy] = v] ELSE k]

\* IntegrateRPMDStepKernel::setVelocities(copy, velocities)
KernelSetVelocities(k, copy, v) ==
    LET e == KernelArgError(k, copy, v.len) IN
    [err |-> e, kernel |-> IF e = "ok" THEN [k EXCEPT !.vel[copy] = v] ELSE k]

\* IntegrateRPMDStepKernel::copyToContext(copy, context): the bead's data
\* that is written into the context.
KernelCopyToContext(k, copy) ==
    LET e == KernelArgError(k, copy, NumParticles) IN
    [err |-> e,
     pos |-> IF e = "ok" THEN k.pos[copy] ELSE NoVec,
     vel |-> IF e = "ok" THEN k.vel[copy] ELSE NoVec]

\* IntegrateRPMDStepKernel::execute(context, integrator): one propagation
\* step of every bead.  Each bead is coupled to its ring neighbour, feels
\* the force computed from the context's positions and the thermostat noise
\* drawn from the kernel's random stream.
KernelExecute(k, cpos) ==
    LET n == Cardinality(DOMAIN k.pos)
        newVel == [cp \in DOMAIN k.pos |->
                     [k.vel[cp] EXCEPT !.val =
                        (@ + k.pos[(cp + 1) % n].val + cpos.val + k.rng) % ValMod]]
        newPos == [cp \in DOMAIN k.pos |->
                     [k.pos[cp] EXCEPT !.val = (@ + newVel[cp].val) % ValMod]]
    IN [k EXCEPT !.pos = newPos, !.vel = newVel, !.rng = (k.rng + 1) % ValMod]

\* Context::getState(types): the snapshot assembled from the canonical state.
ContextGetState(cpos, cvel, types) ==
    [types |-> types,
     pos |-> IF "Positions" \in types THEN cpos ELSE NoVec,
     vel |-> IF "Velocities" \in types THEN cvel ELSE NoVec]

\* ------------------------------------------------------------ integrator
\* Mutant of getKernelNames: the name is pushed twice.
getKernelNames_Twice == <<IntegrateRPMDStepKernelName, IntegrateRPMDStepKernelName>>

\* RPMDIntegrator::getKernelNames(): a vector holding the one name.
getKernelNames == <<IntegrateRPMDStepKernelName>>

\* The values  &contextRef.getOwner() == owner  can take for the Context at
\* address a.  owner is compared as a raw address.  When it equals a and no
\* live Context is at a, owner dangles (its Context was destroyed, or never
\* finished construction) and the comparison uses an invalid pointer value:
\* both results are allowed for.
SameOwner(i, a) ==
    IF owner[i] # a THEN {FALSE}
    ELSE IF AddrInUse(a) THEN {TRUE}
    ELSE BOOLEAN

\* Mutant of AlreadyBound: the comparison of line 53 inverted (== for !=).
AlreadyBound_Inverted(i, same) == owner[i] # NULL /\ same

\* RPMDIntegrator::initialize, line 53: the exclusivity test, given the
\* result of the address comparison.
AlreadyBound(i, same) == owner[i] # NULL /\ ~same

\* Mutant of initialize: the back-references are only stored on the first
\* bind ("if (owner == NULL) { context = ...; owner = ...; }").
initialize_StaleContext(i, a, im, plat, same) ==
    LET first == owner[i] = NULL
        k == createKernel(IntegrateRPMDStepKernelName, plat, im, nKernels + 1) IN
    IF AlreadyBound(i, same)
    THEN [err |-> "AlreadyBound", owner |-> owner[i], context |-> context[i],
          kernel |-> kernel[i], made |-> 0]
    ELSE IF plat = "unsupported"
    THEN [err |-> "UnsupportedKernel", owner |-> IF first THEN a ELSE owner[i],
          context |-> IF first THEN im ELSE context[i], kernel |-> kernel[i], made |-> 0]
    ELSE IF k.type # "rpmd"
    THEN [err |-> "KernelTypeMismatch", owner |-> IF first THEN a ELSE owner[i],
          context |-> IF first THEN im ELSE context[i], kernel |-> k, made |-> 1]
    ELSE [err |-> "ok", owner |-> IF first THEN a ELSE owner[i],
          context |-> IF first THEN im ELSE context[i],
          kernel |-> KernelInitialize(k, i), made |-> 1]

\* Mutant of initialize: line 58 is executed twice.
initialize_InitializesTwice(i, a, im, plat, same) ==
    IF AlreadyBound(i, same)
    THEN [err |-> "AlreadyBound", owner |-> owner[i], context |-> context[i],
          kernel |-> kernel[i], made |-> 0]
    ELSE IF plat = "unsupported"
    THEN [err |-> "UnsupportedKernel", owner |-> a, context |-> im,
          kernel |-> kernel[i], made |-> 0]
    ELSE LET k == createKernel(IntegrateRPMDStepKernelName, plat, im, nKernels + 1) IN
         IF k.type # "rpmd"
         THEN [err |-> "KernelTypeMismatch", owner |-> a, context |-> im,
               kernel |-> k, made |-> 1]
         ELSE [err |-> "ok", owner |-> a, context |-> im,
               kernel |-> KernelInitialize(KernelInitialize(k, i), i), made |-> 1]

\* Mutant of initialize: on a re-bind the new kernel continues the random
\* stream of the kernel it replaces.
initialize_ContinuesStream(i, a, im, plat, same) ==
    IF AlreadyBound(i, same)
    THEN [err |-> "AlreadyBound", owner |-> owner[i], context |-> context[i],
          kernel |-> kernel[i], made |-> 0]
    ELSE IF plat = "unsupported"
    THEN [err |-> "UnsupportedKernel", owner |-> a, context |-> im,
          kernel |-> kernel[i], made |-> 0]
    ELSE LET k == createKernel(IntegrateRPMDStepKernelName, plat, im, nKernels + 1) IN
         IF k.type # "rpmd"
         THEN [err |-> "KernelTypeMismatch", owner |-> a, context |-> im,
               kernel |-> k, made |-> 1]
         ELSE [err |-> "ok", owner |-> a, context |-> im,
               kernel |-> IF kernel[i].type = "rpmd"
                          THEN [KernelInitialize(k, i) EXCEPT
                                  !.rng = (kernel[i].rng + 1) % ValMod]
                          ELSE KernelInitialize(k, i),
               made |-> 1]

\* Mutant of initialize: an integrator that already holds an RPMD kernel
\* keeps it when it is bound again, no kernel is created or initialized.
initialize_KeepKernel(i, a, im, plat, same) ==
    IF AlreadyBound(i, same)
    THEN [err |-> "AlreadyBound", owner |-> owner[i], context |-> context[i],
          kernel |-> kernel[i], made |-> 0]
    ELSE IF plat = "unsupported"
    THEN [err |-> "UnsupportedKernel", owner |-> a, context |-> im,
          kernel |-> kernel[i], made |-> 0]
    ELSE IF kernel[i].type = "rpmd"
    THEN [err |-> "ok", owner |-> a, context |-> im,
          kernel |-> [kernel[i] EXCEPT !.impl = im], made |-> 0]
    ELSE LET k == createKernel(IntegrateRPMDStepKernelName, plat, im, nKernels + 1) IN
         IF k.type # "rpmd"
         THEN [err |-> "KernelTypeMismatch", owner |-> a, context |-> im,
               kernel |-> k, made |-> 1]
         ELSE [err |-> "ok", owner |-> a, context |-> im,
               kernel |-> KernelInitialize(k, i), made |-> 1]

\* Mutant of initialize: the back-references of lines 55-56 are stored
\* before the test of line 53 is made.
initialize_StoresFirst(i, a, im, plat, same) ==
    IF AlreadyBound(i, same)
    THEN [err |-> "AlreadyBound", owner |-> a, context |-> im,
          kernel |-> kernel[i], made |-> 0]
    ELSE IF plat = "unsupported"
    THEN [err |-> "UnsupportedKernel", owner |-> a, context |-> im,
          kernel |-> kernel[i], made |-> 0]
    ELSE LET k == createKernel(IntegrateRPMDStepKernelName, plat, im, nKernels + 1) IN
         IF k.type # "rpmd"
         THEN [err |-> "KernelTypeMismatch", owner |-> a, context |-> im,
               kernel |-> k, made |-> 1]
         ELSE [err |-> "ok", owner |-> a, context |-> im,
               kernel |-> KernelInitialize(k, i), made |-> 1]

\* Mutant of initialize: on a re-bind the integrator copies the per-copy
\* positions and velocities of the kernel it held into the new one.
initialize_CarriesData(i, a, im, plat, same) ==
    IF AlreadyBound(i, same)
    THEN [err |-> "AlreadyBound", owner |-> owner[i], context |-> context[i],
          kernel |-> kernel[i], made |-> 0]
    ELSE IF plat = "unsupported"
    THEN [err |-> "UnsupportedKernel", owner |-> a, context |-> im,
          kernel |-> kernel[i], made |-> 0]
    ELSE LET k == createKernel(IntegrateRPMDStepKernelName, plat, im, nKernels + 1) IN
         IF k.type # "rpmd"
         THEN [err |-> "KernelTypeMismatch", owner |-> a, context |-> im,
               kernel |-> k, made |-> 1]
         ELSE [err |-> "ok", owner |-> a, context |-> im,
               kernel |-> IF kernel[i].type = "rpmd"
                          THEN [KernelInitialize(k, i) EXCEPT
                                  !.pos = kernel[i].pos, !.vel = kernel[i].vel]
                          ELSE KernelInitialize(k, i),
               made |-> 1]

\* RPMDIntegrator::initialize(contextRef) for the ContextImpl im of the
\* Context stored at address a, on a platform of kind plat: the values of the
\* integrator's fields when the call returns or throws.
initialize(i, a, im, plat, same) ==
    IF AlreadyBound(i, same)
    THEN [err |-> "AlreadyBound", owner |-> owner[i], context |-> context[i],
          kernel |-> kernel[i], made |-> 0]
    ELSE IF plat = "unsupported"
    THEN [err |-> "UnsupportedKernel", owner |-> a, context |-> im,
          kernel |-> kernel[i], made |-> 0]
    ELSE LET k == createKernel(IntegrateRPMDStepKernelName, plat, im, nKernels + 1) IN
         IF k.type # "rpmd"
         THEN [err |-> "KernelTypeMismatch", owner |-> a, context |-> im,
               kernel |-> k, made |-> 1]
         ELSE [err |-> "ok", owner |-> a, context |-> im,
               kernel |-> KernelInitialize(k, i), made |-> 1]

\* ------------------------------------------------------------ operations
Ready == ~halted /\ pc.phase = "idle"

\* hist after one more state-changing operation on integrator i.  A run of
\* more than MaxHist operations is no longer recorded (long).
Record(i, op, copy, v) ==
    IF ~hist[i].on \/ hist[i].long THEN hist
    ELSE IF Len(hist[i].ops) < MaxHist
    THEN [hist EXCEPT ![i].ops = Append(@, [op |-> op, copy |-> copy, v |-> v])]
    ELSE [hist EXCEPT ![i].ops = <<>>, ![i].long = TRUE]

\* hist after a bind attempt on integrator i that ended with r.
Rebound(i, r) ==
    IF r.err = "ok" /\ hist[i].on
    THEN [hist EXCEPT ![i] = [NoHist EXCEPT !.on = TRUE, !.seed = seed[i]]]
    ELSE hist

\* Mutant of RPMDIntegrator: line 48 passes the step size on
\* ("setConstraintTolerance(stepSize)").
RPMDIntegrator_ToleranceFromStepSize(i, n, t, f, dt, s) ==
    /\ Ready
    /\ owner[i] = NULL
    /\ owner' = [owner EXCEPT ![i] = NULL]
    /\ numCopies' = [numCopies EXCEPT ![i] = n]
    /\ temperature' = [temperature EXCEPT ![i] = t]
    /\ friction' = [friction EXCEPT ![i] = f]
    /\ stepSize' = [stepSize EXCEPT ![i] = dt]
    /\ constraintTolerance' = [constraintTolerance EXCEPT ![i] = dt]
    /\ seed' = [seed EXCEPT ![i] = s]
    /\ last' = Outcome("construct", i, "ok", NoState)
    /\ UNCHANGED <<state1, context, kernel, ctx, ctxPos, ctxVel,
                   nextImpl, nKernels, pc, halted, hist>>

\* RPMDIntegrator::RPMDIntegrator(numCopies, temperature, frictionCoeff,
\* stepSize): the caller replaces the integrator object i, which no Context
\* was ever given, by a newly constructed one.  owner is NULL and numCopies
\* is the argument as it is; the three scalars go through their setters, the
\* constraint tolerance is set to 1e-4 and the seed comes from the clock.
RPMDIntegrator(i, n, t, f, dt, s) ==
    /\ Ready
    /\ owner[i] = NULL
    /\ owner' = [owner EXCEPT ![i] = NULL]
    /\ numCopies' = [numCopies EXCEPT ![i] = n]
    /\ temperature' = [temperature EXCEPT ![i] = t]
    /\ friction' = [friction EXCEPT ![i] = f]
    /\ stepSize' = [stepSize EXCEPT ![i] = dt]
    /\ constraintTolerance' = [constraintTolerance EXCEPT ![i] = DefaultConstraintTolerance]
    /\ seed' = [seed EXCEPT ![i] = s]
    /\ last' = Outcome("construct", i, "ok", NoState)
    /\ UNCHANGED <<state1, context, kernel, ctx, ctxPos, ctxVel,
                   nextImpl, nKernels, pc, halted, hist>>

\* Context::Context(system, integrator, platform): a Context object is placed
\* at a free address, its ContextImpl is built and binds the integrator.  A
\* throwing bind leaves no Context behind.
Construct(i, a, plat, same) ==
    /\ Ready
    /\ nextImpl <= MaxImpl
    /\ ~AddrInUse(a)
    /\ same \in SameOwner(i, a)
    /\ LET c == nextImpl
           r == initialize(i, a, c, plat, same)
       IN /\ owner' = [owner EXCEPT ![i] = r.owner]
          /\ context' = [context EXCEPT ![i] = r.context]
          /\ kernel' = [kernel EXCEPT ![i] = r.kernel]
          /\ nKernels' = nKernels + r.made
          /\ ctx' = [ctx EXCEPT ![c] =
                        IF r.err = "ok"
                        THEN [status |-> "live", addr |-> a, impl |-> c,
                              integ |-> i, plat |-> plat]
                        ELSE [NoCtx EXCEPT !.status = "failed"]]
          /\ last' = Outcome("bind", i, r.err, NoState)
          /\ hist' = Rebound(i, r)
    /\ nextImpl' = nextImpl + 1
    /\ UNCHANGED <<numCopies, state1, temperature, friction, stepSize,
                   constraintTolerance, seed, ctxPos, ctxVel, pc, halted>>

\* Context::~Context(): the Context and its ContextImpl cease to exist.  The
\* integrator is not told.
Destroy(c) ==
    /\ Ready
    /\ ctx[c].status = "live"
    /\ ctx' = [ctx EXCEPT ![c].status = "dead"]
    /\ last' = Outcome("destroy", ctx[c].integ, "ok", NoState)
    /\ UNCHANGED <<numCopies, state1, temperature, friction, stepSize,
                   constraintTolerance, owner, context, kernel, seed, ctxPos, ctxVel, nextImpl,
                   nKernels, pc, halted, hist>>

\* Context::reinitialize(): the ContextImpl is deleted and a new one is built
\* for the same Context, System, Integrator and Platform; the new one binds
\* the integrator again and starts from a cleared canonical state.
reinitialize(c) ==
    /\ Ready
    /\ nextImpl <= MaxImpl
    /\ ctx[c].status = "live"
    /\ LET im == nextImpl
           i == ctx[c].integ
           r == initialize(i, ctx[c].addr, im, ctx[c].plat, owner[i] = ctx[c].addr)
       IN /\ owner' = [owner EXCEPT ![i] = r.owner]
          /\ context' = [context EXCEPT ![i] = r.context]
          /\ kernel' = [kernel EXCEPT ![i] = r.kernel]
          /\ nKernels' = nKernels + r.made
          /\ ctx' = [ctx EXCEPT ![c].impl = im,
                                ![c].status = IF r.err = "ok" THEN "live" ELSE "failed"]
          /\ last' = Outcome("reinitialize", i, r.err, NoState)
          /\ hist' = Rebound(i, r)
    /\ ctxPos' = [ctxPos EXCEPT ![c] = ZeroVec]
    /\ ctxVel' = [ctxVel EXCEPT ![c] = ZeroVec]
    /\ nextImpl' = nextImpl + 1
    /\ UNCHANGED <<numCopies, state1, temperature, friction, stepSize,
                   constraintTolerance, seed, pc, halted>>

\* Integrator::setTemperature(temp)
setTemperature(i, t) ==
    /\ Ready
    /\ temperature' = [temperature EXCEPT ![i] = t]
    /\ last' = Outcome("setTemperature", i, "ok", NoState)
    /\ UNCHANGED <<numCopies, state1, friction, stepSize, constraintTolerance,
                   owner, context, kernel, seed, ctx, ctxPos, ctxVel, nextImpl,
                   nKernels, pc, halted, hist>>

\* Integrator::setFriction(coeff)
setFriction(i, f) ==
    /\ Ready
    /\ friction' = [friction EXCEPT ![i] = f]
    /\ last' = Outcome("setFriction", i, "ok", NoState)
    /\ UNCHANGED <<numCopies, state1, temperature, stepSize, constraintTolerance,
                   owner, context, kernel, seed, ctx, ctxPos, ctxVel, nextImpl,
                   nKernels, pc, halted, hist>>

\* Integrator::setStepSize(size)
setStepSize(i, dt) ==
    /\ Ready
    /\ stepSize' = [stepSize EXCEPT ![i] = dt]
    /\ last' = Outcome("setStepSize", i, "ok", NoState)
    /\ UNCHANGED <<numCopies, state1, temperature, friction, constraintTolerance,
                   owner, context, kernel, seed, ctx, ctxPos, ctxVel, nextImpl,
                   nKernels, pc, halted, hist>>

\* Integrator::setConstraintTolerance(tol)
setConstraintTolerance(i, tol) ==
    /\ Ready
    /\ constraintTolerance' = [constraintTolerance EXCEPT ![i] = tol]
    /\ last' = Outcome("setConstraintTolerance", i, "ok", NoState)
    /\ UNCHANGED <<numCopies, state1, temperature, friction, stepSize,
                   owner, context, kernel, seed, ctx, ctxPos, ctxVel, nextImpl,
                   nKernels, pc, halted, hist>>

\* Integrator::setRandomNumberSeed(seed)
setRandomNumberSeed(i, s) ==
    /\ Ready
    /\ seed' = [seed EXCEPT ![i] = s]
    /\ last' = Outcome("setRandomNumberSeed", i, "ok", NoState)
    /\ UNCHANGED <<numCopies, state1, temperature, friction, stepSize,
                   constraintTolerance, owner, context, kernel, ctx, ctxPos, ctxVel, nextImpl,
                   nKernels, pc, halted, hist>>

\* Mutant of setPositions: the copy index is reduced modulo numCopies before
\* it is handed to the kernel.
setPositions_WrapsCopy(i, copy, v) ==
    /\ Ready
    /\ kernel[i].type # "null"
    /\ LET r == IF kernel[i].type # "rpmd"
                THEN [err |-> "KernelTypeMismatch", kernel |-> kernel[i]]
                ELSE KernelSetPositions(kernel[i], copy % NumCopies, v)
       IN /\ kernel' = [kernel EXCEPT ![i] = r.kernel]
          /\ last' = Outcome("setPositions", i, r.err, NoState)
          /\ hist' = IF r.err = "ok" THEN Record(i, "setPositions", copy, v) ELSE hist
    /\ UNCHANGED <<numCopies, state1, temperature, friction, stepSize,
                   constraintTolerance, owner, context, seed, ctx, ctxPos, ctxVel, nextImpl,
                   nKernels, pc, halted>>

\* Mutant of setPositions: the positions are written to every copy.
setPositions_AllCopies(i, copy, v) ==
    /\ Ready
    /\ kernel[i].type # "null"
    /\ LET r == IF kernel[i].type # "rpmd"
                THEN [err |-> "KernelTypeMismatch", kernel |-> kernel[i]]
                ELSE KernelSetPositions(kernel[i], copy, v)
           all == IF r.err = "ok"
                  THEN [r.kernel EXCEPT !.pos = [cp \in DOMAIN r.kernel.pos |-> v]]
                  ELSE r.kernel
       IN /\ kernel' = [kernel EXCEPT ![i] = all]
          /\ last' = Outcome("setPositions", i, r.err, NoState)
          /\ hist' = IF r.err = "ok" THEN Record(i, "setPositions", copy, v) ELSE hist
    /\ UNCHANGED <<numCopies, state1, temperature, friction, stepSize,
                   constraintTolerance, owner, context, seed, ctx, ctxPos, ctxVel, nextImpl,
                   nKernels, pc, halted>>

\* RPMDIntegrator::setPositions(copy, positions)
setPositions(i, copy, v) ==
    /\ Ready
    /\ kernel[i].type # "null"
    /\ LET r == IF kernel[i].type # "rpmd"
                THEN [err |-> "KernelTypeMismatch", kernel |-> kernel[i]]
                ELSE KernelSetPositions(kernel[i], copy, v)
       IN /\ kernel' = [kernel EXCEPT ![i] = r.kernel]
          /\ last' = Outcome("setPositions", i, r.err, NoState)
          /\ hist' = IF r.err = "ok" THEN Record(i, "setPositions", copy, v) ELSE hist
    /\ UNCHANGED <<numCopies, state1, temperature, friction, stepSize,
                   constraintTolerance, owner, context, seed, ctx, ctxPos, ctxVel, nextImpl,
                   nKernels, pc, halted>>

\* Mutant of setVelocities: the vector is resized to the particle count
\* before it is handed to the kernel.
setVelocities_Resizes(i, copy, v) ==
    /\ Ready
    /\ kernel[i].type # "null"
    /\ LET r == IF kernel[i].type # "rpmd"
                THEN [err |-> "KernelTypeMismatch", kernel |-> kernel[i]]
                ELSE KernelSetVelocities(kernel[i], copy, [v EXCEPT !.len = NumParticles])
       IN /\ kernel' = [kernel EXCEPT ![i] = r.kernel]
          /\ last' = Outcome("setVelocities", i, r.err, NoState)
          /\ hist' = IF r.err = "ok" THEN Record(i, "setVelocities", copy, v) ELSE hist
    /\ UNCHANGED <<numCopies, state1, temperature, friction, stepSize,
                   constraintTolerance, owner, context, seed, ctx, ctxPos, ctxVel, nextImpl,
                   nKernels, pc, halted>>

\* RPMDIntegrator::setVelocities(copy, velocities)
setVelocities(i, copy, v) ==
    /\ Ready
    /\ kernel[i].type # "null"
    /\ LET r == IF kernel[i].type # "rpmd"
                THEN [err |-> "KernelTypeMismatch", kernel |-> kernel[i]]
                ELSE KernelSetVelocities(kernel[i], copy, v)
       IN /\ kernel' = [kernel EXCEPT ![i] = r.kernel]
          /\ last' = Outcome("setVelocities", i, r.err, NoState)
          /\ hist' = IF r.err = "ok" THEN Record(i, "setVelocities", copy, v) ELSE hist
    /\ UNCHANGED <<numCopies, state1, temperature, friction, stepSize,
                   constraintTolerance, owner, context, seed, ctx, ctxPos, ctxVel, nextImpl,
                   nKernels, pc, halted>>

\* State state1 = ...getState(...): the caller keeps the State object the
\* last getState returned.
keepState ==
    /\ Ready
    /\ last.op = "getState" /\ last.err = "ok"
    /\ state1' = last.ret
    /\ UNCHANGED <<owner, context, kernel, seed, numCopies, temperature, friction,
                   stepSize, constraintTolerance, ctx, ctxPos, ctxVel,
                   nextImpl, nKernels, pc, last, halted, hist>>

\* Mutant of getState: State objects share the Context's arrays, so the
\* flush of line 76 also rewrites the State the caller kept.
getState_SharedArrays(i, copy, types) ==
    /\ Ready
    /\ kernel[i].type # "null"
    /\ kernel[i].type = "rpmd" => LiveCtxOf(context[i]) # 0
    /\ LET c == LiveCtxOf(context[i])
           r == IF kernel[i].type # "rpmd"
                THEN [err |-> "KernelTypeMismatch", pos |-> NoVec, vel |-> NoVec]
                ELSE KernelCopyToContext(kernel[i], copy)
       IN IF r.err = "ok"
          THEN /\ ctxPos' = [ctxPos EXCEPT ![c] = r.pos]
               /\ ctxVel' = [ctxVel EXCEPT ![c] = r.vel]
               /\ last' = Outcome("getState", i, "ok",
                                  ContextGetState(ctxPos'[c], ctxVel'[c], types))
               /\ hist' = Record(i, "getState", copy, NoVec)
               /\ state1' = ContextGetState(r.pos, r.vel, state1.types)
          ELSE /\ last' = Outcome("getState", i, r.err, NoState)
               /\ UNCHANGED <<ctxPos, ctxVel, hist, state1>>
    /\ UNCHANGED <<numCopies, temperature, friction, stepSize, constraintTolerance,
                   owner, context, kernel, seed, ctx, nextImpl,
                   nKernels, pc, halted>>

\* Mutant of getState: the read draws from the kernel's random stream.
getState_DrawsRandom(i, copy, types) ==
    /\ Ready
    /\ kernel[i].type # "null"
    /\ kernel[i].type = "rpmd" => LiveCtxOf(context[i]) # 0
    /\ LET c == LiveCtxOf(context[i])
           r == IF kernel[i].type # "rpmd"
                THEN [err |-> "KernelTypeMismatch", pos |-> NoVec, vel |-> NoVec]
                ELSE KernelCopyToContext(kernel[i], copy)
       IN IF r.err = "ok"
          THEN /\ ctxPos' = [ctxPos EXCEPT ![c] = r.pos]
               /\ ctxVel' = [ctxVel EXCEPT ![c] = r.vel]
               /\ last' = Outcome("getState", i, "ok",
                                  ContextGetState(ctxPos'[c], ctxVel'[c], types))
               /\ hist' = Record(i, "getState", copy, NoVec)
               /\ kernel' = [kernel EXCEPT ![i].rng = (@ + 1) % ValMod]
          ELSE /\ last' = Outcome("getState", i, r.err, NoState)
               /\ UNCHANGED <<ctxPos, ctxVel, hist, kernel>>
    /\ UNCHANGED <<numCopies, state1, temperature, friction, stepSize,
                   constraintTolerance, owner, context, seed, ctx, nextImpl,
                   nKernels, pc, halted>>

\* Mutant of getState: lines 76 and 77 swapped, the snapshot is taken before
\* the bead is flushed into the context.
getState_SnapshotFirst(i, copy, types) ==
    /\ Ready
    /\ kernel[i].type # "null"
    /\ kernel[i].type = "rpmd" => LiveCtxOf(context[i]) # 0
    /\ LET c == LiveCtxOf(context[i])
           r == IF kernel[i].type # "rpmd"
                THEN [err |-> "KernelTypeMismatch", pos |-> NoVec, vel |-> NoVec]
                ELSE KernelCopyToContext(kernel[i], copy)
       IN IF r.err = "ok"
          THEN /\ ctxPos' = [ctxPos EXCEPT ![c] = r.pos]
               /\ ctxVel' = [ctxVel EXCEPT ![c] = r.vel]
               /\ last' = Outcome("getState", i, "ok",
                                  ContextGetState(ctxPos[c], ctxVel[c], types))
               /\ hist' = Record(i, "getState", copy, NoVec)
          ELSE /\ last' = Outcome("getState", i, r.err, NoState)
               /\ UNCHANGED <<ctxPos, ctxVel, hist>>
    /\ UNCHANGED <<numCopies, state1, temperature, friction, stepSize,
                   constraintTolerance, owner, context, kernel, seed, ctx, nextImpl, nKernels, pc,
                   halted>>

\* RPMDIntegrator::getState(copy, types): line 76 flushes the bead into the
\* context, line 77 takes the snapshot of the context.
getState(i, copy, types) ==
    /\ Ready
    /\ kernel[i].type # "null"
    /\ kernel[i].type = "rpmd" => LiveCtxOf(context[i]) # 0
    /\ LET c == LiveCtxOf(context[i])
           r == IF kernel[i].type # "rpmd"
                THEN [err |-> "KernelTypeMismatch", pos |-> NoVec, vel |-> NoVec]
                ELSE KernelCopyToContext(kernel[i], copy)
       IN IF r.err = "ok"
          THEN /\ ctxPos' = [ctxPos EXCEPT ![c] = r.pos]
               /\ ctxVel' = [ctxVel EXCEPT ![c] = r.vel]
               /\ last' = Outcome("getState", i, "ok",
                                  ContextGetState(ctxPos'[c], ctxVel'[c], types))
               /\ hist' = Record(i, "getState", copy, NoVec)
          ELSE /\ last' = Outcome("getState", i, r.err, NoState)
               /\ UNCHANGED <<ctxPos, ctxVel, hist>>
    /\ UNCHANGED <<numCopies, state1, temperature, friction, stepSize,
                   constraintTolerance, owner, context, kernel, seed, ctx, nextImpl, nKernels, pc,
                   halted>>

\* Mutant of step: the loop test is made after the body ("do { ... } while
\* (++i < steps)"), so the body runs once even when steps <= 0.
step_DoWhile(i, n) ==
    /\ Ready
    /\ LiveCtxOf(context[i]) # 0
    /\ pc' = [Idle EXCEPT !.phase = "update", !.integ = i, !.n = n]
    /\ last' = Outcome("step", i, "running", NoState)
    /\ UNCHANGED <<numCopies, state1, temperature, friction, stepSize,
                   constraintTolerance, owner, context, kernel, seed, ctx, ctxPos,
                   ctxVel, nextImpl, nKernels, halted, hist>>

\* RPMDIntegrator::step(steps), line 81: the loop is entered, or skipped when
\* steps <= 0.
step(i, n) ==
    /\ Ready
    /\ n >= 1 => LiveCtxOf(context[i]) # 0
    /\ IF n >= 1
       THEN /\ pc' = [Idle EXCEPT !.phase = "update", !.integ = i, !.n = n]
            /\ last' = Outcome("step", i, "running", NoState)
       ELSE /\ pc' = Idle
            /\ last' = Outcome("step", i, "ok", NoState)
    /\ UNCHANGED <<numCopies, state1, temperature, friction, stepSize,
                   constraintTolerance, owner, context, kernel, seed, ctx, ctxPos, ctxVel, nextImpl,
                   nKernels, halted, hist>>

\* step() is left, by the loop ending or by an exception nothing catches.
StepLeaves(err) ==
    /\ pc' = Idle
    /\ last' = [last EXCEPT !.err = err]

\* line 82: context->updateContextState(), which returns or throws.
stepUpdateContextState(returns) ==
    /\ ~halted
    /\ pc.phase = "update"
    /\ IF returns
       THEN /\ pc' = [pc EXCEPT !.phase = "forces", !.update = @ + 1]
            /\ UNCHANGED last
       ELSE StepLeaves("BackendError")
    /\ UNCHANGED <<numCopies, state1, temperature, friction, stepSize,
                   constraintTolerance, owner, context, kernel, seed, ctx, ctxPos, ctxVel, nextImpl,
                   nKernels, halted, hist>>

\* Mutant of stepCalcForcesAndEnergy: the energy is requested as well.
stepCalcForcesAndEnergy_WantsEnergy(returns) ==
    /\ ~halted
    /\ pc.phase = "forces"
    /\ IF returns
       THEN /\ pc' = [pc EXCEPT !.phase = "execute", !.forces = @ + 1,
                                !.includeForces = TRUE,
                                !.includeEnergy = TRUE]
            /\ UNCHANGED last
       ELSE StepLeaves("BackendError")
    /\ UNCHANGED <<numCopies, state1, temperature, friction, stepSize,
                   constraintTolerance, owner, context, kernel, seed, ctx, ctxPos,
                   ctxVel, nextImpl, nKernels, halted, hist>>

\* Mutant of stepCalcForcesAndEnergy: an exception of the force evaluation
\* is caught and the iteration goes on to execute.
stepCalcForcesAndEnergy_Swallows(returns) ==
    /\ ~halted
    /\ pc.phase = "forces"
    /\ IF returns
       THEN /\ pc' = [pc EXCEPT !.phase = "execute", !.forces = @ + 1,
                                !.includeForces = TRUE,
                                !.includeEnergy = FALSE]
            /\ UNCHANGED last
       ELSE pc' = [pc EXCEPT !.phase = "execute"] /\ UNCHANGED last
    /\ UNCHANGED <<numCopies, state1, temperature, friction, stepSize,
                   constraintTolerance, owner, context, kernel, seed, ctx, ctxPos,
                   ctxVel, nextImpl, nKernels, halted, hist>>

\* line 83: context->calcForcesAndEnergy(true, false), which returns or throws.
stepCalcForcesAndEnergy(returns) ==
    /\ ~halted
    /\ pc.phase = "forces"
    /\ IF returns
       THEN /\ pc' = [pc EXCEPT !.phase = "execute", !.forces = @ + 1,
                                !.includeForces = TRUE,
                                !.includeEnergy = FALSE]
            /\ UNCHANGED last
       ELSE StepLeaves("BackendError")
    /\ UNCHANGED <<numCopies, state1, temperature, friction, stepSize,
                   constraintTolerance, owner, context, kernel, seed, ctx, ctxPos,
                   ctxVel, nextImpl, nKernels, halted, hist>>

\* Mutant of stepExecute: the loop of line 81 re-enters at the force
\* evaluation, the pre-step hook runs in the first iteration only.
stepExecute_SkipsUpdate(returns) ==
    /\ ~halted
    /\ pc.phase = "execute"
    /\ LET i == pc.integ
           c == LiveCtxOf(context[i])
       IN IF kernel[i].type # "rpmd"
          THEN StepLeaves("KernelTypeMismatch") /\ UNCHANGED <<kernel, hist>>
          ELSE IF returns
          THEN /\ kernel' = [kernel EXCEPT ![i] =
                              [KernelExecute(@, ctxPos[c]) EXCEPT !.par = Parameters(i)]]
               /\ hist' = Record(i, "execute", 0, NoVec)
               /\ IF pc.i + 1 < pc.n
                  THEN /\ pc' = [pc EXCEPT !.phase = "forces", !.i = @ + 1,
                                           !.execute = @ + 1]
                       /\ UNCHANGED last
                  ELSE StepLeaves("ok")
          ELSE StepLeaves("BackendError") /\ UNCHANGED <<kernel, hist>>
    /\ UNCHANGED <<numCopies, state1, temperature, friction, stepSize,
                   constraintTolerance, owner, context, seed, ctx, ctxPos, ctxVel, nextImpl,
                   nKernels, halted>>

\* Mutant of stepExecute: the kernel is not handed the integrator and goes
\* on with the parameters it read when it was initialized.
stepExecute_BindParameters(returns) ==
    /\ ~halted
    /\ pc.phase = "execute"
    /\ LET i == pc.integ
           c == LiveCtxOf(context[i])
       IN IF kernel[i].type # "rpmd"
          THEN StepLeaves("KernelTypeMismatch") /\ UNCHANGED <<kernel, hist>>
          ELSE IF returns
          THEN /\ kernel' = [kernel EXCEPT ![i] = KernelExecute(@, ctxPos[c])]
               /\ hist' = Record(i, "execute", 0, NoVec)
               /\ IF pc.i + 1 < pc.n
                  THEN /\ pc' = [pc EXCEPT !.phase = "update", !.i = @ + 1,
                                           !.execute = @ + 1]
                       /\ UNCHANGED last
                  ELSE StepLeaves("ok")
          ELSE StepLeaves("BackendError") /\ UNCHANGED <<kernel, hist>>
    /\ UNCHANGED <<numCopies, state1, temperature, friction, stepSize,
                   constraintTolerance, owner, context, seed, ctx, ctxPos, ctxVel,
                   nextImpl, nKernels, halted>>

\* line 84: the kernel's execute, which is handed the context and the
\* integrator and returns or throws, then ++i and the loop test of line 81.
stepExecute(returns) ==
    /\ ~halted
    /\ pc.phase = "execute"
    /\ LET i == pc.integ
           c == LiveCtxOf(context[i])
       IN IF kernel[i].type # "rpmd"
          THEN StepLeaves("KernelTypeMismatch") /\ UNCHANGED <<kernel, hist>>
          ELSE IF returns
          THEN /\ kernel' = [kernel EXCEPT ![i] =
                              [KernelExecute(@, ctxPos[c]) EXCEPT !.par = Parameters(i)]]
               /\ hist' = Record(i, "execute", 0, NoVec)
               /\ IF pc.i + 1 < pc.n
                  THEN /\ pc' = [pc EXCEPT !.phase = "update", !.i = @ + 1,
                                           !.execute = @ + 1]
                       /\ UNCHANGED last
                  ELSE StepLeaves("ok")
          ELSE StepLeaves("BackendError") /\ UNCHANGED <<kernel, hist>>
    /\ UNCHANGED <<numCopies, state1, temperature, friction, stepSize,
                   constraintTolerance, owner, context, seed, ctx, ctxPos, ctxVel, nextImpl,
                   nKernels, halted>>

\* A call that dereferences a null kernel handle or a deleted ContextImpl has
\* undefined behaviour.
Undefined(i, op) ==
    \/ op \in {"setPositions", "setVelocities", "getState"} /\ kernel[i].type = "null"
    \/ op = "getState" /\ kernel[i].type = "rpmd" /\ LiveCtxOf(context[i]) = 0
    \/ op = "step" /\ LiveCtxOf(context[i]) = 0

\* The outcomes considered for undefined behaviour: the process crashes, or
\* the call comes back having changed nothing the model tracks.
UndefinedUse(i, op, crash) ==
    /\ Ready
    /\ Undefined(i, op)
    /\ halted' = crash
    /\ last' = Outcome(op, i, IF crash THEN "Crash" ELSE "Undefined", NoState)
    /\ UNCHANGED <<numCopies, state1, temperature, friction, stepSize,
                   constraintTolerance, owner, context, kernel, seed, ctx, ctxPos, ctxVel, nextImpl,
                   nKernels, pc, hist>>

\* ---------------------------------------------------------- specification
\* RPMDIntegrator::RPMDIntegrator: owner(NULL), no kernel yet, and a seed
\* taken from the clock.  No Context exists.
Init ==
    /\ owner = [i \in Integ |-> NULL]
    /\ context = [i \in Integ |-> NULL]
    /\ kernel = [i \in Integ |-> NoKernel]
    /\ seed \in [Integ -> Seeds]
    /\ numCopies = [i \in Integ |-> NumCopies]
    /\ temperature = [i \in Integ |-> 0]
    /\ friction = [i \in Integ |-> 0]
    /\ stepSize = [i \in Integ |-> 0]
    /\ constraintTolerance = [i \in Integ |-> DefaultConstraintTolerance]
    /\ ctx = [c \in ImplId |-> NoCtx]
    /\ ctxPos = [c \in ImplId |-> ZeroVec]
    /\ ctxVel = [c \in ImplId |-> ZeroVec]
    /\ nextImpl = 1
    /\ nKernels = 0
    /\ pc = Idle
    /\ last = Outcome("none", 0, "ok", NoState)
    /\ halted = FALSE
    /\ hist = [i \in Integ |-> NoHist]
    /\ state1 = NoState

AnyOp == {"setPositions", "setVelocities", "getState", "step"}

Next ==
    \/ \E i \in Integ, n \in CopyCounts, t \in Scalars, f \in Scalars, dt \in Scalars, s \in Seeds :
          RPMDIntegrator(i, n, t, f, dt, s)
    \/ \E i \in Integ, a \in Addr, plat \in PlatKinds, same \in BOOLEAN : Construct(i, a, plat, same)
    \/ keepState
    \/ \E c \in ImplId : Destroy(c)
    \/ \E c \in ImplId : reinitialize(c)
    \/ \E i \in Integ, s \in Seeds : setRandomNumberSeed(i, s)
    \/ \E i \in Integ, t \in Scalars : setTemperature(i, t)
    \/ \E i \in Integ, f \in Scalars : setFriction(i, f)
    \/ \E i \in Integ, dt \in Scalars : setStepSize(i, dt)
    \/ \E i \in Integ, tol \in Scalars : setConstraintTolerance(i, tol)
    \/ \E i \in Integ, copy \in CopyArgs, v \in InVecs : setPositions(i, copy, v)
    \/ \E i \in Integ, copy \in CopyArgs, v \in InVecs : setVelocities(i, copy, v)
    \/ \E i \in Integ, copy \in CopyArgs, types \in SUBSET DataTypes : getState(i, copy, types)
    \/ \E i \in Integ, n \in StepArgs : step(i, n)
    \/ \E returns \in BOOLEAN : stepUpdateContextState(returns)
    \/ \E returns \in BOOLEAN : stepCalcForcesAndEnergy(returns)
    \/ \E returns \in BOOLEAN : stepExecute(returns)
    \/ \E i \in Integ, op \in AnyOp, crash \in BOOLEAN : UndefinedUse(i, op, crash)

\* Every operation of the program, from the state after the integrators'
\* construction.
Spec == Init /\ [][Next]_vars

\* The binding life cycle: Contexts are constructed, reinitialized and
\* destroyed around the integrators.
NextBind ==
    \/ \E i \in Integ, a \in Addr, plat \in PlatKinds, same \in BOOLEAN : Construct(i, a, plat, same)
    \/ \E c \in ImplId : Destroy(c)
    \/ \E c \in ImplId : reinitialize(c)
    \/ \E i \in Integ, s \in Seeds : setRandomNumberSeed(i, s)

SpecBind == Init /\ [][NextBind]_vars

\* The binding life cycle with one integrator more, so that integrators
\* compete for Contexts, addresses and kernels.  The integrators were all
\* given the seed 0.
Pair == 1..(NumInteg + 1)

InitPair ==
    /\ owner = [i \in Pair |-> NULL]
    /\ context = [i \in Pair |-> NULL]
    /\ kernel = [i \in Pair |-> NoKernel]
    /\ seed = [i \in Pair |-> 0]
    /\ numCopies = [i \in Pair |-> NumCopies]
    /\ temperature = [i \in Pair |-> 0]
    /\ friction = [i \in Pair |-> 0]
    /\ stepSize = [i \in Pair |-> 0]
    /\ constraintTolerance = [i \in Pair |-> DefaultConstraintTolerance]
    /\ ctx = [c \in ImplId |-> NoCtx]
    /\ ctxPos = [c \in ImplId |-> ZeroVec]
    /\ ctxVel = [c \in ImplId |-> ZeroVec]
    /\ nextImpl = 1
    /\ nKernels = 0
    /\ pc = Idle
    /\ last = Outcome("none", 0, "ok", NoState)
    /\ halted = FALSE
    /\ hist = [i \in Pair |-> NoHist]
    /\ state1 = NoState

NextPair ==
    \/ \E i \in Pair, a \in Addr, plat \in PlatKinds, same \in BOOLEAN :
          Construct(i, a, plat, same)
    \/ \E c \in ImplId : Destroy(c)
    \/ \E c \in ImplId : reinitialize(c)

SpecPair == InitPair /\ [][NextPair]_vars

\* Integrators constructed with any number of copies (and zero temperature,
\* friction and step size), then bound and used with well-formed arguments.
NextCtor ==
    \/ \E i \in Integ, n \in CopyCounts, s \in Seeds : RPMDIntegrator(i, n, 0, 0, 0, s)
    \/ \E i \in Integ, a \in Addr, plat \in PlatKinds, same \in BOOLEAN :
          Construct(i, a, plat, same)
    \/ \E c \in ImplId : Destroy(c)
    \/ \E c \in ImplId : reinitialize(c)
    \/ \E i \in Integ, copy \in Copies, v \in Vec(NumParticles) :
          setPositions(i, copy, v)
    \/ \E i \in Integ, copy \in Copies, v \in Vec(NumParticles) :
          setVelocities(i, copy, v)
    \/ \E i \in Integ, copy \in Copies : getState(i, copy, DataTypes)
    \/ \E i \in Integ, n \in 1..MaxSteps : step(i, n)
    \/ stepUpdateContextState(TRUE)
    \/ stepCalcForcesAndEnergy(TRUE)
    \/ stepExecute(TRUE)

SpecCtor == Init /\ [][NextCtor]_vars

\* Contexts constructed on any platform and destroyed, and the integrator
\* used with well-formed arguments whatever came of the bind.
NextUse ==
    \/ \E i \in Integ, a \in Addr, plat \in PlatKinds, same \in BOOLEAN :
          Construct(i, a, plat, same)
    \/ \E c \in ImplId : Destroy(c)
    \/ \E i \in Integ, copy \in Copies, v \in Vec(NumParticles) :
          setPositions(i, copy, v)
    \/ \E i \in Integ, copy \in Copies, v \in Vec(NumParticles) :
          setVelocities(i, copy, v)
    \/ \E i \in Integ, copy \in Copies : getState(i, copy, DataTypes)
    \/ \E i \in Integ, n \in 0..MaxSteps : step(i, n)
    \/ \E returns \in BOOLEAN : stepUpdateContextState(returns)
    \/ \E returns \in BOOLEAN : stepCalcForcesAndEnergy(returns)
    \/ \E returns \in BOOLEAN : stepExecute(returns)
    \/ \E i \in Integ, op \in AnyOp, crash \in BOOLEAN : UndefinedUse(i, op, crash)

SpecUse == Init /\ [][NextUse]_vars

\* Integrators from their construction on: unbound, given to Contexts on any
\* platform, and stepped.
NextLife ==
    \/ \E i \in Integ, a \in Addr, plat \in PlatKinds, same \in BOOLEAN :
          Construct(i, a, plat, same)
    \/ \E i \in Integ, n \in 1..MaxSteps : step(i, n)
    \/ stepUpdateContextState(TRUE)
    \/ stepCalcForcesAndEnergy(TRUE)
    \/ stepExecute(TRUE)

SpecLife == Init /\ [][NextLife]_vars

\* The state right after  Context context(system, integrator, platform)  has
\* bound the first integrator at the first address on a platform that has
\* the RPMD kernel (SpecBind reaches it by one Construct).
FirstBound ==
    /\ seed \in {f \in [Integ -> Seeds] : \A i \in Integ \ {1} : f[i] = 0}
    /\ numCopies = [i \in Integ |-> NumCopies]
    /\ temperature = [i \in Integ |-> 0]
    /\ friction = [i \in Integ |-> 0]
    /\ stepSize = [i \in Integ |-> 0]
    /\ constraintTolerance = [i \in Integ |-> DefaultConstraintTolerance]
    /\ state1 = NoState
    /\ owner = [i \in Integ |-> IF i = 1 THEN 1 ELSE NULL]
    /\ context = [i \in Integ |-> IF i = 1 THEN 1 ELSE NULL]
    /\ kernel = [i \in Integ |->
                   IF i = 1
                   THEN KernelInitialize(
                            createKernel(IntegrateRPMDStepKernelName, "ok", 1, 1), 1)
                   ELSE NoKernel]
    /\ ctx = [c \in ImplId |->
                IF c = 1 THEN [status |-> "live", addr |-> 1, impl |-> 1,
                               integ |-> 1, plat |-> "ok"]
                ELSE NoCtx]
    /\ ctxPos = [c \in ImplId |-> ZeroVec]
    /\ ctxVel = [c \in ImplId |-> ZeroVec]
    /\ nextImpl = 2
    /\ nKernels = 1
    /\ pc = Idle
    /\ last = Outcome("bind", 1, "ok", NoState)
    /\ halted = FALSE

InitData == FirstBound /\ hist = [i \in Integ |-> NoHist]

\* The integrators that hold a kernel.
Bound == {i \in Integ : kernel[i].type # "null"}

\* The operations a caller makes on a bound integrator and its Context.
NextData ==
    \/ \E c \in ImplId : reinitialize(c)
    \/ \E i \in Bound, s \in Seeds : setRandomNumberSeed(i, s)
    \/ \E i \in Bound, copy \in CopyArgs, v \in InVecs : setPositions(i, copy, v)
    \/ \E i \in Bound, copy \in CopyArgs, v \in InVecs : setVelocities(i, copy, v)
    \/ \E i \in Bound, copy \in CopyArgs, types \in SUBSET DataTypes : getState(i, copy, types)
    \/ \E i \in Bound, n \in StepArgs : step(i, n)
    \/ \E returns \in BOOLEAN : stepUpdateContextState(returns)
    \/ \E returns \in BOOLEAN : stepCalcForcesAndEnergy(returns)
    \/ \E returns \in BOOLEAN : stepExecute(returns)

SpecData == InitData /\ [][NextData]_vars

\* Runs whose operations all succeed, with the history of each run recorded:
\* well-formed writes, reads and steps between reinitializations.
InitRuns ==
    /\ FirstBound
    /\ hist = [i \in Integ |-> IF i = 1 THEN [NoHist EXCEPT !.on = TRUE, !.seed = seed[1]]
                                ELSE NoHist]

NextRuns ==
    \/ \E c \in ImplId : reinitialize(c)
    \/ \E i \in Bound, s \in Seeds : setRandomNumberSeed(i, s)
    \/ \E i \in Bound, copy \in Copies, v \in Vec(NumParticles) : setPositions(i, copy, v)
    \/ \E i \in Bound, copy \in Copies, v \in Vec(NumParticles) : setVelocities(i, copy, v)
    \/ \E i \in Bound, copy \in Copies : getState(i, copy, DataTypes)
    \/ \E i \in Bound, n \in 1..MaxSteps : step(i, n)
    \/ stepUpdateContextState(TRUE)
    \/ stepCalcForcesAndEnergy(TRUE)
    \/ stepExecute(TRUE)

SpecRuns == InitRuns /\ [][NextRuns]_vars

\* A caller that keeps State objects while it goes on using the integrator
\* and the Context with well-formed arguments.
NextSnap ==
    \/ \E c \in ImplId : reinitialize(c)
    \/ \E i \in Bound, copy \in Copies, v \in Vec(NumParticles) :
          setPositions(i, copy, v)
    \/ \E i \in Bound, copy \in Copies, v \in Vec(NumParticles) :
          setVelocities(i, copy, v)
    \/ \E i \in Bound, copy \in Copies : getState(i, copy, DataTypes)
    \/ keepState
    \/ \E i \in Bound, n \in 1..MaxSteps : step(i, n)
    \/ stepUpdateContextState(TRUE)
    \/ stepCalcForcesAndEnergy(TRUE)
    \/ stepExecute(TRUE)

SpecSnap == InitData /\ [][NextSnap]_vars

\* step(n) for every n, with collaborators that all return, between writes
\* of the per-copy positions.  step() runs on the caller's thread, which goes
\* on to the next call of the loop body as soon as the previous one returns.
NextStep ==
    \/ \E i \in Bound, copy \in Copies, v \in Vec(NumParticles) :
          setPositions(i, copy, v)
    \/ \E i \in Bound, n \in StepArgs : step(i, n)
    \/ stepUpdateContextState(TRUE)
    \/ stepCalcForcesAndEnergy(TRUE)
    \/ stepExecute(TRUE)

SpecStep ==
    /\ InitRuns
    /\ [][NextStep]_vars
    /\ WF_vars(stepUpdateContextState(TRUE))
    /\ WF_vars(stepCalcForcesAndEnergy(TRUE))
    /\ WF_vars(stepExecute(TRUE))

\* The integrator the caller constructs first.  Integrator objects share no
\* state, so what its constructor and setters do is followed for this one.
First == {1}

\* An integrator object is constructed with any arguments, has its
\* constraint tolerance set, and is given to Contexts.
NextNew ==
    \/ \E i \in First, n \in CopyCounts, t \in Scalars, f \in Scalars, dt \in Scalars,
          s \in Seeds : RPMDIntegrator(i, n, t, f, dt, s)
    \/ \E i \in First, tol \in Scalars : setConstraintTolerance(i, tol)
    \/ \E i \in First, a \in Addr, same \in BOOLEAN : Construct(i, a, "ok", same)

SpecNew == Init /\ [][NextNew]_vars

\* A bound integrator is used while the caller tries to construct further
\* Contexts, on any platform, with it.
NextReject ==
    \/ \E i \in Bound, a \in Addr, plat \in PlatKinds, same \in BOOLEAN :
          Construct(i, a, plat, same)
    \/ \E i \in Bound, copy \in Copies, v \in Vec(NumParticles) :
          setPositions(i, copy, v)
    \/ \E i \in Bound, copy \in Copies : getState(i, copy, DataTypes)
    \/ \E i \in Bound, n \in 1..MaxSteps : step(i, n)
    \/ stepUpdateContextState(TRUE)
    \/ stepCalcForcesAndEnergy(TRUE)
    \/ stepExecute(TRUE)

SpecReject == InitData /\ [][NextReject]_vars

\* A caller that changes the scalar parameters of a bound integrator between
\* its calls of step, and reinitializes the Context now and then.
NextParam ==
    \/ \E c \in ImplId : reinitialize(c)
    \/ \E i \in Bound, t \in Scalars : setTemperature(i, t)
    \/ \E i \in Bound, f \in Scalars : setFriction(i, f)
    \/ \E i \in Bound, dt \in Scalars : setStepSize(i, dt)
    \/ \E i \in Bound, n \in 1..MaxSteps : step(i, n)
    \/ stepUpdateContextState(TRUE)
    \/ stepCalcForcesAndEnergy(TRUE)
    \/ stepExecute(TRUE)

SpecParam == InitData /\ [][NextParam]_vars

\* ------------------------------------------------------------------ claims
\* The live Context integrator i is bound to: the one whose ContextImpl the
\* integrator refers to (0 when there is none).
BoundCtx(i) ==
    IF \E c \in ImplId : ctx[c].status = "live" /\ ctx[c].integ = i /\ ctx[c].impl = context[i]
    THEN CHOOSE c \in ImplId : ctx[c].status = "live" /\ ctx[c].integ = i /\ ctx[c].impl = context[i]
    ELSE 0

\* A step that is a bind attempt made by constructing a new Context.
IsConstruct == last'.op = "bind" /\ nextImpl' = nextImpl + 1

\* A step that is the bind attempt made by reinitialize() of a live Context.
IsReinitialize == last'.op = "reinitialize" /\ nextImpl' = nextImpl + 1

\* C1: binding exclusivity.  While an integrator is bound to a Context, every
\* attempt to bind it by constructing another Context fails with the
\* "already bound" error, and every re-bind to the Context it is bound to
\* (reinitialize) succeeds.
C1_BindingExclusivity ==
    [][ /\ (IsConstruct /\ BoundCtx(last'.integ) # 0) => last'.err = "AlreadyBound"
        /\ (IsReinitialize /\ BoundCtx(last'.integ) # 0) => last'.err = "ok"
      ]_vars

\* C1 witness: an integrator that was bound and re-bound to its Context has
\* just been refused for another Context.
C1_Witness ==
    \E i \in Integ :
        /\ last = Outcome("bind", i, "AlreadyBound", NoState)
        /\ BoundCtx(i) # 0
        /\ kernel[i].id >= 2

\* C2: an integrator leaves Unbound only through a successful bind.  As long
\* as no bind of integrator i has succeeded (it holds no kernel), also after
\* binds the platform refused, a bind of i to a Context on a platform that has
\* the RPMD kernel is accepted.
C2_UnboundUntilSuccess ==
    [][ \A i \in Integ, a \in Addr, same \in BOOLEAN :
          (kernel[i].type = "null" /\ Construct(i, a, "ok", same)) => last'.err = "ok"
      ]_vars

\* C8: reinitialize() re-runs the full bind sequence.  The re-bind is accepted,
\* one new kernel is created and initialized with the integrator's current
\* random seed, the integrator keeps its owner and afterwards refers to the
\* Context's new, live ContextImpl.
C8_ReinitializeRebinds ==
    [][ IsReinitialize =>
          LET i == last'.integ IN
          /\ last'.err = "ok"
          /\ nKernels' = nKernels + 1
          /\ kernel'[i].id = nKernels'
          /\ kernel'[i].type = "rpmd"
          /\ kernel'[i].rng = seed[i] % ValMod
          /\ kernel'[i].impl = nextImpl
          /\ owner'[i] = owner[i]
          /\ context'[i] = nextImpl
          /\ \E c \in ImplId : /\ ctx[c].status = "live"
                               /\ ctx[c].integ = i
                               /\ ctx'[c].status = "live"
                               /\ ctx'[c].impl = context'[i]
                               /\ ctx[c].impl # ctx'[c].impl
      ]_vars

\* C8 witness: a Context has just been reinitialized; its integrator holds a
\* second kernel, seeded from the integrator, and refers to the ContextImpl
\* built last, which is not the Context's first one.
C8_Witness ==
    \E i \in Integ :
        /\ last = Outcome("reinitialize", i, "ok", NoState)
        /\ kernel[i].id >= 2
        /\ kernel[i].rng = seed[i] % ValMod
        /\ BoundCtx(i) # 0
        /\ context[i] = nextImpl - 1
        /\ context[i] # BoundCtx(i)

\* C10: once the Context an integrator was bound to has been destroyed, every
\* later attempt to bind the integrator to a newly constructed Context is
\* rejected, whatever address the new Context is stored at.
C10_NoRebindAfterDestroy ==
    [][ \A i \in Integ :
          ( /\ IsConstruct
            /\ last'.integ = i
            /\ \E c \in ImplId : ctx[c].status = "dead" /\ ctx[c].integ = i
          ) => last'.err # "ok"
      ]_vars

\* Integrator i is bound: it holds an RPMD kernel and refers to the live
\* ContextImpl of its Context.
IsBound(i) == kernel[i].type = "rpmd" /\ BoundCtx(i) # 0

\* The copy indices outside [0, numCopies) a caller may pass.
BadCopies == CopyArgs \ Copies

\* C3: index bounds.  On a bound integrator, setPositions, setVelocities and
\* getState with a copy index outside [0, numCopies) fail with the
\* invalid-copy-index error and change neither the kernel's per-copy data
\* nor the canonical positions and velocities of any Context.  (Stated in
\* the contrapositive: a step that ends otherwise is none of these calls.)
C3_IndexBounds ==
    [][ \A i \in Integ :
          ( /\ last'.op \in {"setPositions", "setVelocities", "getState"}
            /\ last'.integ = i
            /\ IsBound(i)
            /\ ~ ( /\ last'.err = "InvalidCopyIndex"
                   /\ UNCHANGED <<kernel, ctxPos, ctxVel>> )
          ) => \A copy \in BadCopies :
                 /\ last'.op = "setPositions" =>
                      \A v \in InVecs : ~setPositions(i, copy, v)
                 /\ last'.op = "setVelocities" =>
                      \A v \in InVecs : ~setVelocities(i, copy, v)
                 /\ last'.op = "getState" =>
                      \A types \in SUBSET DataTypes : ~getState(i, copy, types)
      ]_vars

\* C3 witness: a call with a bad copy index has just failed on a bound
\* integrator whose beads and Context hold data written before.
C3_Witness ==
    \E i \in Integ :
        /\ IsBound(i)
        /\ last.integ = i
        /\ last.op \in {"setPositions", "setVelocities", "getState"}
        /\ last.err = "InvalidCopyIndex"
        /\ \E cp \in Copies : kernel[i].pos[cp] # ZeroVec
        /\ ctxPos[BoundCtx(i)] # ZeroVec

\* C4: shape validation.  On a bound integrator, setPositions and
\* setVelocities with a valid copy index and a vector whose length is not the
\* particle count fail with the particle-count-mismatch error and leave every
\* bead's stored positions and velocities as they were.  (Stated in the
\* contrapositive: a step that ends otherwise is no such call.)
C4_ShapeValidation ==
    [][ \A i \in Integ :
          ( /\ last'.op \in {"setPositions", "setVelocities", "getState"}
            /\ last'.integ = i
            /\ IsBound(i)
            /\ ~ ( /\ last'.err = "ParticleCountMismatch"
                   /\ kernel'[i].pos = kernel[i].pos
                   /\ kernel'[i].vel = kernel[i].vel )
          ) => \A copy \in Copies, v \in InVecs :
                 v.len # NumParticles =>
                   /\ last'.op = "setPositions" => ~setPositions(i, copy, v)
                   /\ last'.op = "setVelocities" => ~setVelocities(i, copy, v)
      ]_vars

\* C4 witness: a write of a wrong-length vector has just failed on a bound
\* integrator whose beads hold positions and velocities written before.
C4_Witness ==
    \E i \in Integ :
        /\ IsBound(i)
        /\ last.integ = i
        /\ last.op \in {"setPositions", "setVelocities"}
        /\ last.err = "ParticleCountMismatch"
        /\ \E cp \in Copies : kernel[i].pos[cp] # ZeroVec
        /\ \E cp \in Copies : kernel[i].vel[cp] # ZeroVec

\* What getState(j, Positions) returns when the kernel of the integrator is k.
ReadPositions(k, j) ==
    LET r == KernelCopyToContext(k, j)
    IN ContextGetState(r.pos, r.vel, {"Positions"})

\* C5: copy isolation.  On a bound integrator, setPositions(cp, v) leaves
\* what getState(j, Positions) returns unchanged for every other valid copy
\* j, and getState(j, Positions) returns the positions stored for copy j.
\* (Stated in the contrapositive: a step that changes what another copy
\* reads is no setPositions(cp, v), and a step that returns other positions
\* is no getState(cp, Positions).)
C5_CopyIsolation ==
    [][ \A i \in Integ :
          (last'.integ = i /\ IsBound(i)) =>
            /\ last'.op = "setPositions" =>
                 \A cp \in Copies :
                   (\E j \in Copies \ {cp} :
                      ReadPositions(kernel'[i], j) # ReadPositions(kernel[i], j))
                   => \A v \in InVecs : ~setPositions(i, cp, v)
            /\ last'.op = "getState" =>
                 \A cp \in Copies :
                   ~ ( /\ last'.ret = ReadPositions(kernel[i], cp)
                       /\ last'.ret.pos = kernel[i].pos[cp] )
                   => ~getState(i, cp, {"Positions"})
      ]_vars

\* C5 witness: positions have just been written to one copy of a bound
\* integrator while another copy holds different positions.
C5_Witness ==
    \E i \in Integ, cp \in Copies, j \in Copies :
        /\ IsBound(i)
        /\ last = Outcome("setPositions", i, "ok", NoState)
        /\ j # cp
        /\ kernel[i].pos[cp] # ZeroVec
        /\ kernel[i].pos[j] # kernel[i].pos[cp]

\* C6: flush, then snapshot.  A successful getState(copy, types) on a bound
\* integrator returns the kernel's positions and velocities of that bead as
\* they are when the call is made, restricted to the requested types, and
\* leaves them as the canonical positions and velocities of the Context.
\* (Stated in the contrapositive: a step that ends otherwise is no
\* getState(cp, types).)
C6_FlushThenSnapshot ==
    [][ \A i \in Integ :
          (last'.op = "getState" /\ last'.integ = i /\ IsBound(i)) =>
            LET c == BoundCtx(i)
            IN \A cp \in Copies, types \in SUBSET DataTypes :
                 ~ ( /\ last'.err = "ok"
                     /\ last'.ret = ContextGetState(kernel[i].pos[cp],
                                                    kernel[i].vel[cp], types)
                     /\ ctxPos'[c] = kernel[i].pos[cp]
                     /\ ctxVel'[c] = kernel[i].vel[cp]
                     /\ kernel' = kernel )
                 => ~getState(i, cp, types)
      ]_vars

\* C6 witness: getState has just returned the positions of a bead that differ
\* from those of another bead, and the Context holds them.
C6_Witness ==
    \E i \in Integ, cp \in Copies, j \in Copies :
        /\ IsBound(i)
        /\ last.op = "getState" /\ last.integ = i /\ last.err = "ok"
        /\ last.ret.pos = kernel[i].pos[cp]
        /\ last.ret.pos # kernel[i].pos[j]
        /\ last.ret.vel = kernel[i].vel[cp]
        /\ last.ret.vel # kernel[i].vel[j]
        /\ ctxPos[BoundCtx(i)] = last.ret.pos
        /\ ctxVel[BoundCtx(i)] = last.ret.vel

\* The calls made so far by a step() that is at position p, iteration p.i.
StepCounts(p) ==
    CASE p.phase = "idle"    -> p = Idle
      [] p.phase = "update"  -> /\ p.i < p.n
                                /\ p.update = p.i /\ p.forces = p.i
                                /\ p.execute = p.i
      [] p.phase = "forces"  -> /\ p.i < p.n
                                /\ p.update = p.i + 1 /\ p.forces = p.i
                                /\ p.execute = p.i
      [] p.phase = "execute" -> /\ p.i < p.n
                                /\ p.update = p.i + 1 /\ p.forces = p.i + 1
                                /\ p.execute = p.i

\* C7: step protocol.  Within step(n) the pre-step hook, the force
\* evaluation and the kernel's execute are called once per iteration in this
\* order: the hook runs when all three have run equally often, the force
\* evaluation when the hook is one ahead, execute when hook and force
\* evaluation are one ahead; a step(n) that returns normally has made n calls
\* of each, and step(n) with n <= 0 makes none.
C7_StepProtocol ==
    [][ /\ StepCounts(pc')
        /\ stepUpdateContextState(TRUE) =>
             pc.update = pc.forces /\ pc.forces = pc.execute
        /\ stepCalcForcesAndEnergy(TRUE) =>
             pc.update = pc.forces + 1 /\ pc.forces = pc.execute
        /\ (stepExecute(TRUE) /\ kernel[pc.integ].type = "rpmd") =>
             /\ pc.update = pc.execute + 1 /\ pc.forces = pc.execute + 1
             /\ (pc' = Idle) =>
                  /\ last'.err = "ok"
                  /\ pc.update = pc.n /\ pc.forces = pc.n
                  /\ pc.execute + 1 = pc.n
        /\ \A i \in Integ, n \in StepArgs :
             (n <= 0 /\ last'.op = "step" /\ step(i, n)) => pc' = Idle /\ last'.err = "ok"
      ]_vars

\* C7 witness: the second iteration of a step(2) has run the hook and the
\* force evaluation twice and execute once, and is about to execute.
C7_Witness ==
    /\ pc.phase = "execute"
    /\ pc.n = 2 /\ pc.i = 1
    /\ pc.update = 2 /\ pc.forces = 2 /\ pc.execute = 1
    /\ IsBound(pc.integ)

\* The data of a run: the kernel's random stream and per-copy buffers, and
\* the canonical positions and velocities of the Context.  A run starts from
\* a kernel seeded with s and a cleared Context.
RunStart(s) ==
    [rng |-> s % ValMod,
     pos |-> [cp \in Copies |-> ZeroVec],
     vel |-> [cp \in Copies |-> ZeroVec],
     cpos |-> ZeroVec, cvel |-> ZeroVec]

\* The data of a run after one more operation e.
RunApply(d, e) ==
    CASE e.op = "setPositions"  -> KernelSetPositions(d, e.copy, e.v).kernel
      [] e.op = "setVelocities" -> KernelSetVelocities(d, e.copy, e.v).kernel
      [] e.op = "getState"      -> [d EXCEPT !.cpos = KernelCopyToContext(d, e.copy).pos,
                                             !.cvel = KernelCopyToContext(d, e.copy).vel]
      [] e.op = "execute"       -> KernelExecute(d, d.cpos)

\* The data a run has after the operations ops, in order.
RECURSIVE Replay(_, _)
Replay(d, ops) ==
    IF ops = <<>> THEN d ELSE Replay(RunApply(d, Head(ops)), Tail(ops))

\* The data integrator i and its Context hold now.
RunData(i) ==
    [rng |-> kernel[i].rng, pos |-> kernel[i].pos, vel |-> kernel[i].vel,
     cpos |-> ctxPos[BoundCtx(i)], cvel |-> ctxVel[BoundCtx(i)]]

\* C9: determinism.  The positions, velocities and random stream a bound
\* integrator holds are a function of the seed it had when its Context was
\* last (re)initialized and of the writes, reads and steps made since:
\* replaying them on a fresh kernel gives the same data, whatever ran before
\* the reinitialize.
C9_Determinism ==
    \A i \in Integ :
        (IsBound(i) /\ hist[i].on /\ ~hist[i].long) =>
            RunData(i) = Replay(RunStart(hist[i].seed), hist[i].ops)

\* C9 witness: after a reinitialize that followed earlier operations (the
\* kernel is not the first one), a run has written data and executed a step.
C9_Witness ==
    \E i \in Integ :
        /\ IsBound(i) /\ hist[i].on /\ ~hist[i].long
        /\ kernel[i].id >= 2
        /\ Len(hist[i].ops) = MaxHist
        /\ hist[i].ops[1].op \in {"setPositions", "setVelocities"}
        /\ hist[i].ops[1].v # ZeroVec
        /\ hist[i].ops[Len(hist[i].ops)].op = "execute"
        /\ pc.phase = "idle"

\* C11: kernel exclusivity.  No kernel instance is held by two integrators,
\* every kernel held was created by the platform for one ContextImpl, and a
\* bound integrator holds the kernel created for the ContextImpl it is bound
\* to, which belongs to exactly one live Context, its own.
C11_KernelExclusivity ==
    \A i \in DOMAIN kernel :
        kernel[i].type # "null" =>
            /\ kernel[i].id \in 1..nKernels
            /\ \A j \in DOMAIN kernel \ {i} : kernel[j].id # kernel[i].id
            /\ IsBound(i) =>
                 /\ kernel[i].impl = context[i]
                 /\ ctx[BoundCtx(i)].integ = i
                 /\ \A c \in ImplId :
                      (ctx[c].status = "live" /\ ctx[c].impl = kernel[i].impl)
                      => c = BoundCtx(i)

\* C11 witness: two integrators are bound to two live Contexts, one of them
\* after a re-bind, and hold different kernels.
C11_Witness ==
    \E i \in DOMAIN kernel, j \in DOMAIN kernel :
        /\ i # j
        /\ IsBound(i) /\ IsBound(j)
        /\ BoundCtx(i) # BoundCtx(j)
        /\ kernel[i].id # kernel[j].id
        /\ nKernels >= 3

\* C12: numCopies invariant.  Every integrator has numCopies >= 1 in every
\* state, and once an integrator has been given to a Context no operation
\* changes its numCopies.
C12_NumCopiesInvariant ==
    /\ [](\A i \in Integ : numCopies[i] >= 1)
    /\ [][ \A i \in Integ : owner[i] # NULL => numCopies'[i] = numCopies[i] ]_vars

\* C13: kernel type mismatch is fatal at every use site.  A bind on a
\* platform whose kernel is not an RPMD step kernel fails with the
\* kernel-type-mismatch error and leaves the kernel uninitialized, and
\* setPositions, setVelocities, getState and step on an integrator holding
\* such a kernel fail with that error and leave the kernel as it is.
C13_TypeMismatchFatal ==
    [][ \A i \in Integ :
          /\ (IsConstruct /\ last'.integ = i /\ kernel'[i].type = "other"
                /\ kernel'[i] # kernel[i])
             => /\ last'.err = "KernelTypeMismatch"
                /\ kernel'[i].pos = <<>> /\ kernel'[i].vel = <<>>
          /\ (kernel[i].type = "other" /\ last'.integ = i /\ last'.op \in AnyOp)
             => /\ last'.err = "KernelTypeMismatch"
                /\ kernel'[i] = kernel[i]
      ]_vars

\* C14: snapshot immutability.  The State the caller keeps changes only
\* when the caller replaces it by the State a getState has just returned:
\* no step, setPositions, setVelocities, reinitialize or getState changes
\* it.  Every getState returns the kernel's data for the bead as it is at
\* that call.
C14_SnapshotImmutability ==
    [][ /\ state1' # state1 =>
             /\ last.op = "getState" /\ last.err = "ok"
             /\ last' = last
             /\ state1' = last.ret
        /\ \A i \in Integ :
             (last'.op = "getState" /\ last'.integ = i /\ IsBound(i)) =>
               \A cp \in Copies, types \in SUBSET DataTypes :
                 getState(i, cp, types) =>
                   /\ state1' = state1
                   /\ last'.ret = ContextGetState(kernel[i].pos[cp],
                                                  kernel[i].vel[cp], types)
      ]_vars

\* C14 witness: the caller holds a State with positions and velocities, and
\* a later getState of the same types has returned other values.
C14_Witness ==
    /\ state1.types = DataTypes
    /\ last.op = "getState" /\ last.err = "ok"
    /\ last.ret.types = DataTypes
    /\ last.ret.pos # state1.pos
    /\ last.ret.vel # state1.vel
    /\ IsBound(last.integ)
    /\ ctxPos[BoundCtx(last.integ)] = last.ret.pos

\* What getState(cp, ...) on the bound integrator i may change: nothing but
\* the canonical positions and velocities of its Context, which become the
\* data of bead cp.
FlushOnly(i, cp) ==
    /\ kernel' = kernel
    /\ owner' = owner /\ context' = context /\ ctx' = ctx
    /\ seed' = seed /\ numCopies' = numCopies
    /\ nextImpl' = nextImpl /\ nKernels' = nKernels
    /\ pc' = pc
    /\ \A c \in ImplId \ {BoundCtx(i)} :
         ctxPos'[c] = ctxPos[c] /\ ctxVel'[c] = ctxVel[c]
    /\ ctxPos'[BoundCtx(i)] = kernel[i].pos[cp]
    /\ ctxVel'[BoundCtx(i)] = kernel[i].vel[cp]

\* C15: getState is read-only apart from the flush.  getState(cp, types)
\* with a valid copy on a bound integrator changes no bead's positions or
\* velocities in the kernel, not the random stream, not the binding, and
\* makes no step; of the data only the canonical positions and velocities of
\* the integrator's Context change, to those of bead cp.  (Stated in the
\* contrapositive: a step that changes more is no getState(cp, types).)
C15_GetStateReadOnly ==
    [][ \A i \in Integ :
          (last'.op = "getState" /\ last'.integ = i /\ IsBound(i)) =>
            \A cp \in Copies :
              ~FlushOnly(i, cp) =>
                \A types \in SUBSET DataTypes : ~getState(i, cp, types)
      ]_vars

\* C15 witness: a getState has just flushed the non-zero positions of one
\* bead into the Context, while another bead holds different positions.
C15_Witness ==
    \E i \in Integ, cp \in Copies, j \in Copies :
        /\ IsBound(i)
        /\ last.op = "getState" /\ last.integ = i /\ last.err = "ok"
        /\ ctxPos[BoundCtx(i)] = kernel[i].pos[cp]
        /\ ctxVel[BoundCtx(i)] = kernel[i].vel[cp]
        /\ kernel[i].pos[j] # kernel[i].pos[cp]
        /\ ctxPos[BoundCtx(i)] # ZeroVec
        /\ pc = Idle

\* One of the three calls of an iteration throws.
StepCallFails ==
    \/ stepUpdateContextState(FALSE)
    \/ stepCalcForcesAndEnergy(FALSE)
    \/ stepExecute(FALSE) /\ kernel[pc.integ].type = "rpmd"

\* C16: error propagation in step.  When the pre-step hook, the force
\* evaluation or execute throws inside step(n), step is left at once with
\* that error as its outcome: no call of this or a later iteration follows,
\* the failed call is not made again, and the data the completed iterations
\* left in the kernel and the Context stays as it is.  Calls are only ever
\* made inside a step the caller has started.
C16_StepErrorPropagation ==
    [][ /\ (pc.phase # "idle" /\ pc'.phase = "idle" /\ last'.err # "ok") =>
             /\ StepCallFails
             /\ last' = Outcome("step", pc.integ, "BackendError", NoState)
             /\ pc' = Idle
             /\ kernel' = kernel /\ ctxPos' = ctxPos /\ ctxVel' = ctxVel
        /\ (pc.phase # "idle" /\ pc'.phase # "idle") =>
             \/ stepUpdateContextState(TRUE)
             \/ stepCalcForcesAndEnergy(TRUE)
             \/ stepExecute(TRUE)
        /\ (pc.phase = "idle" /\ pc'.phase # "idle") =>
             /\ last' = Outcome("step", pc'.integ, "running", NoState)
             /\ pc'.phase = "update" /\ pc'.i = 0
      ]_vars

\* C16 witness: a step on a bound integrator has ended with the error of a
\* failed call, and the kernel holds velocities that differ between beads.
C16_Witness ==
    \E i \in Integ, cp \in Copies, j \in Copies :
        /\ IsBound(i)
        /\ last = Outcome("step", i, "BackendError", NoState)
        /\ pc = Idle
        /\ kernel[i].vel[cp] # kernel[i].vel[j]

\* C20: in every iteration of every step(n) the force evaluation is called
\* with includeForces = true and includeEnergy = false.
C20_ForcesNotEnergy ==
    [][ pc'.forces # pc.forces =>
          \/ pc' = Idle
          \/ /\ pc'.forces = pc.forces + 1
             /\ pc'.includeForces = TRUE
             /\ pc'.includeEnergy = FALSE
      ]_vars

\* C20 witness: the force evaluation of the second iteration of a step(n)
\* has been requested, with forces and without energy.
C20_Witness ==
    /\ pc.phase = "execute"
    /\ pc.i = 1 /\ pc.forces = 2
    /\ pc.includeForces /\ ~pc.includeEnergy
    /\ IsBound(pc.integ)

\* C17: the integrator declares exactly one kernel name, in every state the
\* same, and every kernel it holds was requested from the platform under
\* that name.
C17_KernelNames ==
    /\ Len(getKernelNames) = 1
    /\ \A i \in Integ :
         kernel[i].type # "null" => kernel[i].name = getKernelNames[1]

\* C17 witness: a bound integrator, whose kernel was created under the
\* declared name, has completed a step.
C17_Witness ==
    \E i \in Integ :
        /\ IsBound(i)
        /\ kernel[i].name = getKernelNames[1]
        /\ last = Outcome("step", i, "ok", NoState)
        /\ pc = Idle
        /\ kernel[i].id >= 2

\* A bind event has just succeeded: a Context was constructed or
\* reinitialized and its new ContextImpl bound the integrator.
IsBindOk == (IsConstruct \/ IsReinitialize) /\ last'.err = "ok"

\* C18: bind sequence.  Every successful bind event creates exactly one
\* kernel through the platform and initializes it exactly once, from the
\* integrator's parameters, before anything else is done to it: when the
\* bind returns the integrator holds the kernel created last, initialized
\* once, with all beads as initialize left them and the random stream at the
\* integrator's seed.  An integrator never holds an RPMD kernel that was not
\* initialized exactly once.
C18_BindSequence ==
    [][ /\ IsBindOk =>
             LET i == last'.integ
             IN /\ nKernels' = nKernels + 1
                /\ kernel'[i].id = nKernels'
                /\ kernel'[i].id # kernel[i].id
                /\ kernel'[i].type = "rpmd"
                /\ kernel'[i].impl = nextImpl
                /\ kernel'[i].inits = 1
                /\ kernel'[i].rng = seed[i] % ValMod
                /\ DOMAIN kernel'[i].pos = 0..(numCopies[i] - 1)
                /\ \A cp \in DOMAIN kernel'[i].pos :
                     kernel'[i].pos[cp] = ZeroVec /\ kernel'[i].vel[cp] = ZeroVec
        /\ \A i \in Integ : kernel'[i].type = "rpmd" => kernel'[i].inits = 1
      ]_vars

\* C18 witness: a bind event has succeeded for an integrator that held a
\* kernel before; it holds the kernel created last, initialized once.
C18_Witness ==
    \E i \in Integ :
        /\ last.op \in {"bind", "reinitialize"} /\ last.integ = i
        /\ last.err = "ok"
        /\ IsBound(i)
        /\ nKernels >= 2
        /\ kernel[i].id = nKernels
        /\ kernel[i].inits = 1

\* The state of a kernel apart from the identity of the instance and of the
\* ContextImpl it was created for.
KernelState(k) ==
    [name |-> k.name, type |-> k.type, inits |-> k.inits, rng |-> k.rng,
     pos |-> k.pos, vel |-> k.vel]

\* C19: re-bind idempotence.  Binding an integrator again to the Context it
\* is bound to (through reinitialize) leaves it bound to that Context; and
\* when the operation before was itself a successful bind of the integrator,
\* the second bind changes nothing but identities: the integrator has the
\* same owner and a kernel in the same freshly initialized state, and the
\* Context's canonical state is the same.
C19_RebindIdempotent ==
    [][ IsReinitialize =>
          LET i == last'.integ
              c == BoundCtx(i)
          IN (IsBound(i) /\ ctx[c].plat = "ok") =>
               /\ last'.err = "ok"
               /\ owner'[i] = owner[i]
               /\ ctx'[c].status = "live" /\ ctx'[c].integ = i
               /\ ctx'[c].addr = ctx[c].addr
               /\ context'[i] = ctx'[c].impl
               /\ ( /\ last.op \in {"bind", "reinitialize"}
                    /\ last.err = "ok" /\ last.integ = i
                  ) => /\ KernelState(kernel'[i]) = KernelState(kernel[i])
                       /\ ctxPos'[c] = ctxPos[c] /\ ctxVel'[c] = ctxVel[c]
      ]_vars

\* C19 witness: an integrator has been re-bound to its Context twice; it is
\* bound to it, with a kernel in the freshly initialized state.
C19_Witness ==
    \E i \in Integ :
        /\ last = Outcome("reinitialize", i, "ok", NoState)
        /\ IsBound(i)
        /\ kernel[i].id >= 3
        /\ owner[i] = ctx[BoundCtx(i)].addr
        /\ \A cp \in Copies : kernel[i].pos[cp] = ZeroVec

\* What step() never touches, whatever n: the integrator's fields, the
\* kernel, the Contexts and what the caller holds.
StepFrame ==
    UNCHANGED <<owner, context, kernel, seed, numCopies, temperature, friction,
                stepSize, constraintTolerance, ctx, ctxPos, ctxVel, nextImpl,
                nKernels, halted, hist, state1>>

\* C21: step(n) terminates.  With collaborators that all return, a call of
\* step either enters the loop with n >= 1 and no call made yet, or (n <= 0)
\* returns at once without error and with no call made and nothing changed; a
\* step that is left has then made exactly n calls of the pre-step hook, of
\* the force evaluation and of execute and returns without error; and every
\* step that was entered is eventually left.
C21_StepTerminates ==
    /\ [][ (pc.phase = "idle" /\ last'.op = "step") =>
              \/ /\ pc' = [Idle EXCEPT !.phase = "update", !.integ = last'.integ,
                                       !.n = pc'.n]
                 /\ pc'.n >= 1
                 /\ last'.err = "running"
                 /\ StepFrame
              \/ /\ pc' = Idle
                 /\ last'.err = "ok"
                 /\ StepFrame ]_vars
    /\ [][ (pc.phase # "idle" /\ pc'.phase = "idle") =>
              /\ last'.err = "ok"
              /\ pc.update = pc.n /\ pc.forces = pc.n /\ pc.execute + 1 = pc.n ]_vars
    /\ (pc.phase # "idle") ~> (pc.phase = "idle" /\ last.err = "ok")

\* C21 witness: a step(1) has run one execute and returned, positions were
\* written, and then a step(n) with n <= 0 has returned without error: it is
\* the last operation and no execute was recorded after the write.
C21_Witness ==
    \E i \in Integ :
        /\ IsBound(i)
        /\ pc = Idle
        /\ last = Outcome("step", i, "ok", NoState)
        /\ hist[i].on /\ ~hist[i].long
        /\ Len(hist[i].ops) = 2
        /\ hist[i].ops[1].op = "execute"
        /\ hist[i].ops[2].op = "setPositions"

\* C22: a newly constructed integrator.  When the constructor returns, the
\* integrator has no owner, its constraint tolerance is 1e-4 whatever the
\* arguments and whatever the tolerance of the object it replaces, and its
\* numCopies, temperature, friction and step size are the arguments.
C22_NewIntegrator ==
    [][ last'.op = "construct" =>
          \A i \in Integ, n \in CopyCounts, t \in Scalars, f \in Scalars,
             dt \in Scalars, s \in Seeds :
              ~( /\ owner'[i] = NULL
                 /\ constraintTolerance'[i] = DefaultConstraintTolerance
                 /\ numCopies'[i] = n
                 /\ temperature'[i] = t
                 /\ friction'[i] = f
                 /\ stepSize'[i] = dt )
              => ~(last'.integ = i /\ RPMDIntegrator(i, n, t, f, dt, s)) ]_vars

\* C22 witness: an integrator has just been constructed with a step size
\* that differs from 1e-4 and with arguments that differ from one another;
\* it has no owner and the tolerance 1e-4.
C22_Witness ==
    \E i \in Integ :
        /\ last = Outcome("construct", i, "ok", NoState)
        /\ owner[i] = NULL
        /\ constraintTolerance[i] = DefaultConstraintTolerance
        /\ stepSize[i] # DefaultConstraintTolerance
        /\ temperature[i] # friction[i]
        /\ numCopies[i] # NumCopies

\* C23: a rejected bind changes nothing.  When the construction of a Context
\* fails because the integrator is already bound, the integrator's owner,
\* ContextImpl and kernel are what they were, no kernel was created, the live
\* Contexts and their canonical state are what they were and no Context was
\* added; and in every state a bound integrator's kernel belongs to the
\* ContextImpl of the Context that bound it, which is the one step and
\* getState act on.
C23_RejectedBindNoEffect ==
    /\ [][ (IsConstruct /\ last'.err = "AlreadyBound") =>
              \A i \in Integ : i = last'.integ =>
                 /\ owner'[i] = owner[i]
                 /\ context'[i] = context[i]
                 /\ kernel'[i] = kernel[i]
                 /\ nKernels' = nKernels
                 /\ ctxPos' = ctxPos /\ ctxVel' = ctxVel
                 /\ \A c \in ImplId :
                      IF ctx[c].status = "live" THEN ctx'[c] = ctx[c]
                      ELSE ctx'[c].status # "live"
                 /\ BoundCtx(i)' = BoundCtx(i) ]_vars
    /\ [](\A i \in Integ :
            kernel[i].type = "rpmd" =>
                /\ BoundCtx(i) # 0
                /\ LiveCtxOf(context[i]) = BoundCtx(i)
                /\ kernel[i].impl = ctx[BoundCtx(i)].impl)

\* C23 witness: after a bind of the integrator was rejected (a Context failed
\* to construct while the integrator's own Context is the only live one),
\* getState has returned a bead with a non-zero velocity, which a step
\* produced, and the integrator's Context holds it.
C23_Witness ==
    \E i \in Integ :
        /\ IsBound(i)
        /\ \E c \in ImplId : ctx[c].status = "failed"
        /\ \A c \in ImplId : ctx[c].status = "live" => c = BoundCtx(i)
        /\ last.op = "getState" /\ last.integ = i /\ last.err = "ok"
        /\ last.ret.vel.val = 1
        /\ ctxVel[BoundCtx(i)] = last.ret.vel

\* C24: no use before bind.  setPositions, setVelocities, getState and step
\* on an integrator that was never given to a Context (it has no owner and
\* no kernel) end with an error, the process goes on, and no kernel and no
\* Context is changed.
C24_UnboundUseFails ==
    [][ \A i \in Integ :
          (owner[i] = NULL /\ kernel[i].type = "null"
             /\ last'.integ = i /\ last'.op \in AnyOp) =>
              /\ last'.err \notin {"ok", "running", "Undefined", "Crash"}
              /\ ~halted'
              /\ pc' = Idle
              /\ kernel' = kernel
              /\ ctx' = ctx /\ ctxPos' = ctxPos /\ ctxVel' = ctxVel
      ]_vars

\* C25: execute works with the current parameters.  Every execute that runs
\* is handed the integrator, and the temperature, friction, step size and
\* constraint tolerance the kernel works with in that iteration are the
\* integrator's values at that moment, whatever they were when the kernel was
\* initialized.
C25_CurrentParameters ==
    [][ \A i \in Integ :
          (pc.phase = "execute" /\ pc.integ = i /\ IsBound(i)
             /\ pc' # pc /\ last'.err \in {"running", "ok"}) =>
              /\ kernel'[i].par = Parameters(i)
              /\ Parameters(i)' = Parameters(i) ]_vars

\* C25 witness: the integrator was bound once, with temperature, friction
\* and step size 0; all three were changed afterwards, and a step has
\* returned whose execute worked with the changed values.
C25_Witness ==
    \E i \in Integ :
        /\ IsBound(i)
        /\ kernel[i].id = 1 /\ kernel[i].inits = 1
        /\ last = Outcome("step", i, "ok", NoState)
        /\ kernel[i].par = Parameters(i)
        /\ temperature[i] = 1 /\ friction[i] = 1 /\ stepSize[i] = 1

\* C26: a re-bind replaces the kernel.  After a successful re-bind
\* (reinitialize) the integrator holds the kernel created last, which is
\* exactly what the platform's createKernel and the kernel's initialize make
\* of the integrator's own fields: nothing of the replaced kernel, its
\* per-copy positions and velocities included, is in it.  Every getState
\* returns the data of a bead of the kernel the integrator holds at the call,
\* so a read after the re-bind comes from the new kernel.
C26_RebindReplacesKernel ==
    [][ \A i \in Integ : last'.integ = i =>
          /\ (IsReinitialize /\ last'.err = "ok") =>
                /\ kernel'[i].id # kernel[i].id
                /\ kernel'[i].id = nKernels + 1
                /\ \E plat \in PlatKinds :
                      kernel'[i] = KernelInitialize(
                          createKernel(IntegrateRPMDStepKernelName, plat,
                                       nextImpl, nKernels + 1), i)
          /\ (last'.op = "getState" /\ last'.err = "ok") =>
                /\ kernel'[i] = kernel[i]
                /\ \E cp \in DOMAIN kernel[i].pos :
                      last'.ret = ContextGetState(kernel[i].pos[cp],
                                                  kernel[i].vel[cp], last'.ret.types)
      ]_vars

\* C26 witness: the caller keeps a State with non-zero positions and
\* velocities that it read from the integrator; the integrator has been
\* re-bound since and holds another kernel, none of whose beads has non-zero
\* data, and a getState has just returned a bead of that kernel.
C26_Witness ==
    \E i \in Integ :
        /\ IsBound(i)
        /\ kernel[i].id >= 2
        /\ state1.pos.val = 1 /\ state1.vel.val = 1
        /\ \A cp \in DOMAIN kernel[i].pos :
              kernel[i].pos[cp] = ZeroVec /\ kernel[i].vel[cp] = ZeroVec
        /\ last.op = "getState" /\ last.integ = i /\ last.err = "ok"
        /\ last.ret.pos = ZeroVec /\ last.ret.vel = ZeroVec

====
